---- MODULE Spec2Model ----
(***************************************************************************)
(* Model of HttpRange (src/src/http_range.rs): from_header, to_header and  *)
(* the satisfiability predicates.  Header values are sequences of          *)
(* one-character strings; u64 values are naturals of WordBits bits.        *)
(***************************************************************************)
EXTENDS Integers, Sequences, FiniteSets, TLC

\* ------------------------------------------------------------------ bounds
\* width of the unsigned integer type (u64 in the source, scaled down)
WordBits == 3
\* range bounds the caller writes are 0..MaxNum, and the largest u64
MaxNum == 1
\* number of range-specs in a header
MaxRanges == 2
\* content_length arguments are 0..MaxContent
MaxContent == 2

MaxU64 == 2^WordBits - 1

U64 == 0..MaxU64

\* ------------------------------------------------------------ string tools
Digits == <<"0", "1", "2", "3", "4", "5", "6", "7", "8", "9">>

IsDigit(c) == \E i \in 1..10 : Digits[i] = c

DigitVal(c) == (CHOOSE i \in 1..10 : Digits[i] = c) - 1

\* str::split(sep): the pieces between the separators, always at least one
RECURSIVE SplitFrom(_, _, _, _, _)
SplitFrom(s, sep, i, cur, acc) ==
    IF i > Len(s) THEN Append(acc, cur)
    ELSE IF s[i] = sep THEN SplitFrom(s, sep, i + 1, <<>>, Append(acc, cur))
    ELSE SplitFrom(s, sep, i + 1, Append(cur, s[i]), acc)

Split(s, sep) == SplitFrom(s, sep, 1, <<>>, <<>>)

\* str::trim(): leading and trailing white space removed
RECURSIVE TrimStart(_)
TrimStart(s) ==
    IF s /= <<>> /\ Head(s) = " " THEN TrimStart(Tail(s)) ELSE s

RECURSIVE TrimEnd(_)
TrimEnd(s) ==
    IF s /= <<>> /\ s[Len(s)] = " " THEN TrimEnd(SubSeq(s, 1, Len(s) - 1)) ELSE s

Trim(s) == TrimEnd(TrimStart(s))

\* .map(|p| p.trim()).collect::<Vec<_>>()
TrimAll(ss) == [i \in 1..Len(ss) |-> Trim(ss[i])]

\* str::parse::<u64>(): an optional "+", then one or more decimal digits, the
\* value within the width; -1 stands for Err
RECURSIVE ParseDigits(_, _, _)
ParseDigits(s, i, acc) ==
    IF i > Len(s) THEN acc
    ELSE IF ~IsDigit(s[i]) THEN -1
    ELSE IF acc * 10 + DigitVal(s[i]) > MaxU64 THEN -1
    ELSE ParseDigits(s, i + 1, acc * 10 + DigitVal(s[i]))

ParseU64(s) ==
    LET body == IF s /= <<>> /\ Head(s) = "+" THEN Tail(s) ELSE s
    IN  IF body = <<>> THEN -1 ELSE ParseDigits(body, 1, 0)

\* format!("{}", n) of an unsigned integer
RECURSIVE FormatU64(_)
FormatU64(n) ==
    IF n < 10 THEN <<Digits[n + 1]>>
    ELSE Append(FormatU64(n \div 10), Digits[(n % 10) + 1])

\* [..].join(sep)
RECURSIVE Join(_, _)
Join(ss, sep) ==
    IF Len(ss) = 0 THEN <<>>
    ELSE IF Len(ss) = 1 THEN ss[1]
    ELSE ss[1] \o sep \o Join(Tail(ss), sep)

\* --------------------------------------------------------------- the types
RANGE_UNIT == <<"b", "y", "t", "e", "s">>

\* std::ops::Range<u64>
Range(s, e) == [start |-> s, end |-> e]

\* Option<CompleteLength>
LengthNone == <<"None", 0>>

LengthUnknown == <<"Unknown", 0>>

Representation(n) == <<"Representation", n>>

\* Option<HttpRange>, and the abort of the call by a panic
HttpRange(ranges, complete_length) ==
    [tag |-> "Some", ranges |-> ranges, complete_length |-> complete_length]

None == [tag |-> "None", ranges |-> <<>>, complete_length |-> LengthNone]

Panic == [tag |-> "Panic", ranges |-> <<>>, complete_length |-> LengthNone]

NotCalled == [tag |-> "NotCalled", ranges |-> <<>>, complete_length |-> LengthNone]

\* ------------------------------------------------------------- from_header
\* u64 subtraction: a panic with overflow checks (debug build), modulo 2^w
\* without them (release build); -1 stands for the panic
SubU64(a, b, overflow_checks) ==
    IF a >= b THEN a - b
    ELSE IF overflow_checks THEN -1
    ELSE a - b + MaxU64 + 1

\* u64 addition, likewise
AddU64(a, b, overflow_checks) ==
    IF a + b <= MaxU64 THEN a + b
    ELSE IF overflow_checks THEN -1
    ELSE a + b - (MaxU64 + 1)

\* ParseRangeParam with the default end content_length instead of content_length - 1
ParseRangeParam_EndAtLength(range_param, content_length, overflow_checks) ==
    LET values == TrimAll(Split(range_param, "-"))
    IN  IF Len(values) /= 2 THEN [tag |-> "None", range |-> Range(0, 0)]
        ELSE
        LET last  == content_length
            start == values[1]
            end   == values[2]
            bad   == [tag |-> "Panic", range |-> Range(0, 0)]
            ok(r) == [tag |-> "Some", range |-> r]
        IN  IF start /= <<>> /\ end /= <<>> THEN
                IF ParseU64(start) = -1 \/ ParseU64(end) = -1 THEN bad
                ELSE ok(Range(ParseU64(start), ParseU64(end)))
            ELSE IF start = <<>> /\ end /= <<>> THEN
                IF ParseU64(end) = -1 THEN bad
                ELSE IF SubU64(content_length, ParseU64(end), overflow_checks) = -1 THEN bad
                ELSE ok(Range(SubU64(content_length, ParseU64(end), overflow_checks), last))
            ELSE IF start /= <<>> /\ end = <<>> THEN
                IF ParseU64(start) = -1 THEN bad
                ELSE ok(Range(ParseU64(start), last))
            ELSE ok(Range(0, last))

\* one iteration of the loop over range_params: the range pushed, None for
\* the early return, Panic for a failed unwrap or a checked overflow
ParseRangeParam(range_param, content_length, overflow_checks) ==
    LET values == TrimAll(Split(range_param, "-"))
    IN  IF Len(values) /= 2 THEN [tag |-> "None", range |-> Range(0, 0)]
        ELSE
        LET last  == SubU64(content_length, 1, overflow_checks)
            start == values[1]
            end   == values[2]
            bad   == [tag |-> "Panic", range |-> Range(0, 0)]
            ok(r) == [tag |-> "Some", range |-> r]
        IN  IF last = -1 THEN bad
            ELSE IF start /= <<>> /\ end /= <<>> THEN
                IF ParseU64(start) = -1 \/ ParseU64(end) = -1 THEN bad
                ELSE ok(Range(ParseU64(start), ParseU64(end)))
            ELSE IF start = <<>> /\ end /= <<>> THEN
                IF ParseU64(end) = -1 THEN bad
                ELSE IF SubU64(content_length, ParseU64(end), overflow_checks) = -1 THEN bad
                ELSE ok(Range(SubU64(content_length, ParseU64(end), overflow_checks), last))
            ELSE IF start /= <<>> /\ end = <<>> THEN
                IF ParseU64(start) = -1 THEN bad
                ELSE ok(Range(ParseU64(start), last))
            ELSE ok(Range(0, last))

\* the loop over range_params: the ranges vector after the loop, or the
\* outcome of the first iteration that leaves the function
RECURSIVE ParseRangeParams(_, _, _, _, _)
ParseRangeParams(range_params, i, ranges, content_length, overflow_checks) ==
    IF i > Len(range_params) THEN [tag |-> "Some", ranges |-> ranges]
    ELSE LET p == ParseRangeParam(range_params[i], content_length, overflow_checks)
         IN  IF p.tag /= "Some" THEN [tag |-> p.tag, ranges |-> <<>>]
             ELSE ParseRangeParams(range_params, i + 1, Append(ranges, p.range),
                                   content_length, overflow_checks)

\* ranges.sort_by(|a, b| a.start.cmp(&b.start)): a stable sort by start
RECURSIVE InsertByStart(_, _)
InsertByStart(sorted, r) ==
    IF sorted = <<>> THEN <<r>>
    ELSE IF sorted[Len(sorted)].start <= r.start THEN Append(sorted, r)
    ELSE Append(InsertByStart(SubSeq(sorted, 1, Len(sorted) - 1), r), sorted[Len(sorted)])

RECURSIVE SortFrom(_, _, _)
SortFrom(ranges, i, sorted) ==
    IF i > Len(ranges) THEN sorted
    ELSE SortFrom(ranges, i + 1, InsertByStart(sorted, ranges[i]))

SortByStart(ranges) == SortFrom(ranges, 1, <<>>)

\* the test of one step of the merge loop: does the range at index join the
\* one before it; -1 for the panic of range_last.end + 1
Joins(range_last, range, overflow_checks) ==
    LET next == AddU64(range_last.end, 1, overflow_checks)
    IN  IF next = -1 THEN -1 ELSE IF next >= range.start THEN 1 ELSE 0

\* the range the merge loop leaves at index when it joins range_last
Joined(range_last, range) == Range(range_last.start, range.end)

\* the merge loop over ranges.iter_mut().enumerate(); index 1 is the source's 0
RECURSIVE MergeFrom(_, _, _, _, _)
MergeFrom(ranges, index, retain, range_last, overflow_checks) ==
    IF index > Len(ranges) THEN [tag |-> "Some", ranges |-> ranges, retain |-> retain]
    ELSE IF index = 1 THEN MergeFrom(ranges, 2, retain, ranges[1], overflow_checks)
    ELSE LET j == Joins(range_last, ranges[index], overflow_checks)
         IN  IF j = -1 THEN [tag |-> "Panic", ranges |-> <<>>, retain |-> <<>>]
             ELSE IF j = 1 THEN
                 LET merged == Joined(range_last, ranges[index])
                 IN  MergeFrom([ranges EXCEPT ![index] = merged], index + 1,
                               [retain EXCEPT ![index - 1] = FALSE], merged, overflow_checks)
             ELSE MergeFrom(ranges, index + 1, retain, ranges[index], overflow_checks)

\* ranges.retain(|_| retain[index])
RECURSIVE Retain(_, _, _)
Retain(ranges, retain, i) ==
    IF i > Len(ranges) THEN <<>>
    ELSE IF retain[i] THEN <<ranges[i]>> \o Retain(ranges, retain, i + 1)
    ELSE Retain(ranges, retain, i + 1)

\* processing for combined ranges: sort, merge, clean up
MergeRanges(ranges, overflow_checks) ==
    LET sorted == SortByStart(ranges)
    IN  IF Len(sorted) > 1 THEN
            LET m == MergeFrom(sorted, 1, [i \in 1..Len(sorted) |-> TRUE], sorted[1],
                               overflow_checks)
            IN  IF m.tag = "Panic" THEN [tag |-> "Panic", ranges |-> <<>>]
                ELSE [tag |-> "Some", ranges |-> Retain(m.ranges, m.retain, 1)]
        ELSE [tag |-> "Some", ranges |-> sorted]

\* the match on length_param; <<"Panic", 0>> for the failed unwrap
ParseCompleteLength(length_param) ==
    IF length_param = <<>> THEN LengthNone
    ELSE IF length_param = <<"*">> THEN LengthUnknown
    ELSE IF ParseU64(length_param) = -1 THEN <<"Panic", 0>>
    ELSE Representation(ParseU64(length_param))

from_header(content_range, content_length, overflow_checks) ==
    IF content_range = <<>> THEN None
    ELSE
    LET parts == TrimAll(Split(content_range, "="))
    IN  IF Len(parts) = 0 THEN None
        ELSE IF parts[1] /= RANGE_UNIT THEN None
        ELSE IF Len(parts) /= 2 THEN None
        ELSE
        LET params == TrimAll(Split(parts[2], "/"))
        IN  IF Len(params) = 0 THEN None
            ELSE IF Len(params) > 2 THEN None
            ELSE
            LET range_params == Split(params[1], ",")
                length_param == IF Len(params) = 2 THEN params[2] ELSE <<>>
                parsed == ParseRangeParams(range_params, 1, <<>>, content_length,
                                           overflow_checks)
            IN  IF parsed.tag = "None" THEN None
                ELSE IF parsed.tag = "Panic" THEN Panic
                ELSE
                LET merged == MergeRanges(parsed.ranges, overflow_checks)
                    complete_length == ParseCompleteLength(length_param)
                IN  IF merged.tag = "Panic" THEN Panic
                    ELSE IF complete_length[1] = "Panic" THEN Panic
                    ELSE HttpRange(merged.ranges, complete_length)

\* --------------------------------------------------------------- to_header
FormatRange(r) == FormatU64(r.start) \o <<"-">> \o FormatU64(r.end)

\* to_header without the complete length part
to_header_NoLength(self) ==
    IF self.ranges = <<>> THEN <<>>
    ELSE RANGE_UNIT \o <<"=">>
             \o Join([i \in 1..Len(self.ranges) |-> FormatRange(self.ranges[i])], <<",">>)

to_header(self) ==
    IF self.ranges = <<>> THEN <<>>
    ELSE
    LET ranges == Join([i \in 1..Len(self.ranges) |-> FormatRange(self.ranges[i])], <<",">>)
    IN  IF self.complete_length[1] = "Representation"
            THEN RANGE_UNIT \o <<"=">> \o ranges \o <<"/">> \o FormatU64(self.complete_length[2])
        ELSE IF self.complete_length[1] = "Unknown"
            THEN RANGE_UNIT \o <<"=">> \o ranges \o <<"/", "*">>
        ELSE RANGE_UNIT \o <<"=">> \o ranges

\* ---------------------------------------------------------- satisfiability
\* range_satisfiable with the boundary included
range_satisfiable_Inclusive(range, content_length) == range.start <= content_length

range_satisfiable(range, content_length) == range.start < content_length

\* the loop with its early return
RECURSIVE AnyFrom(_, _, _)
AnyFrom(ranges, i, content_length) ==
    IF i > Len(ranges) THEN FALSE
    ELSE IF range_satisfiable(ranges[i], content_length) THEN TRUE
    ELSE AnyFrom(ranges, i + 1, content_length)

any_satisfiable(self, content_length) == AnyFrom(self.ranges, 1, content_length)

none_satisfiable(self, content_length) == ~any_satisfiable(self, content_length)

\* ------------------------------------------------------------ the callers
VARIABLES
    content_range,      \* from_header's first argument
    content_length,     \* from_header's second argument
    overflow_checks,    \* TRUE: integer overflow panics; FALSE: it wraps
    http_range,         \* what from_header returned
    header,             \* what to_header returned
    reparsed,           \* what from_header returned for header
    satisfiable,        \* the last call of a satisfiability predicate
    pc

vars == <<content_range, content_length, overflow_checks, http_range, header,
          reparsed, satisfiable, pc>>

NoCall == [op |-> "none yet", length |-> 0, index |-> 0, result |-> FALSE]

\* the numbers a caller writes as range bounds and lengths
Nums == (0..MaxNum) \cup {MaxU64}

\* the texts on either side of the "-" of a range-spec
BoundTokens == {<<>>} \cup {FormatU64(n) : n \in Nums}

RangeSpec(start, end) == start \o <<"-">> \o end

\* range-specs of the grammar, the lone "-" included
RangeSpecs == {RangeSpec(s, e) : s \in BoundTokens, e \in BoundTokens}

\* range-specs outside the grammar: a bound that is no number, a number
\* beyond the width, three tokens, one token, a sign, white space
OddSpecs ==
    { <<"a", "-", "0">>, <<"0", "-", "a">>, <<"0", "-", "1", "-", "2">>, <<"0">>,
      RangeSpec(FormatU64(MaxU64 + 1), <<>>), <<" ", "0", " ", "-", " ", "1", " ">>,
      <<"+", "1", "-">> }

SeqsUpTo(S, n) == UNION {[1..k -> S] : k \in 1..n}

\* what follows the range list
LengthTails == {<<>>, <<"/", "*">>, <<"/">> \o FormatU64(MaxNum)}

OddTails == {<<"/", "a">>, <<"/", "1", "/", "2">>, <<"=", "0", "-", "1">>, <<" ", "/", " ", "*", " ">>}

HeaderOf(unit, specs, tail) == unit \o <<"=">> \o Join(specs, <<",">>) \o tail

\* range-specs with both bounds given, first <= last
ClosedSpecs ==
    {RangeSpec(FormatU64(q[1]), FormatU64(q[2])) :
        q \in {r \in (0..MaxNum) \X (0..MaxNum) : r[1] <= r[2]}}

\* header values of the grammar: up to MaxRanges range-specs of any form, or
\* one more when all are closed; with each form of the length part
GoodHeaders ==
    {HeaderOf(RANGE_UNIT, specs, <<>>) : specs \in SeqsUpTo(RangeSpecs, MaxRanges)}
    \cup {HeaderOf(RANGE_UNIT, specs, <<>>) : specs \in [1..(MaxRanges + 1) -> ClosedSpecs]}
    \cup {HeaderOf(RANGE_UNIT, specs, tail) :
             specs \in SeqsUpTo(RangeSpecs, 1) \cup SeqsUpTo(ClosedSpecs, MaxRanges),
             tail \in LengthTails}

\* header values with one or more defects
OddHeaders ==
    {<<>>, RANGE_UNIT, RANGE_UNIT \o <<"0", "-", "1">>}
    \cup {HeaderOf(<<"b", "i", "t", "s">>, <<s>>, <<>>) : s \in RangeSpecs}
    \cup {HeaderOf(RANGE_UNIT, <<s>>, t) : s \in RangeSpecs, t \in OddTails}
    \cup {HeaderOf(RANGE_UNIT, specs, <<>>) :
             specs \in {q \in SeqsUpTo(RangeSpecs \cup OddSpecs, 2) :
                           \E i \in 1..Len(q) : q[i] \in OddSpecs}}

Headers == GoodHeaders \cup OddHeaders

Init ==
    /\ content_range = <<>>
    /\ content_length = 0
    /\ overflow_checks \in BOOLEAN
    /\ http_range = NotCalled
    /\ header = <<>>
    /\ reparsed = NotCalled
    /\ satisfiable = NoCall
    /\ pc = "start"

\* HttpRange::from_header(content_range, content_length)
FromHeader ==
    /\ pc = "start"
    /\ \E h \in Headers, n \in 0..MaxContent :
          /\ content_range' = h
          /\ content_length' = n
          /\ http_range' = from_header(h, n, overflow_checks)
    /\ pc' = IF http_range'.tag = "Panic" THEN "aborted" ELSE "parsed"
    /\ UNCHANGED <<overflow_checks, header, reparsed, satisfiable>>

\* http_range.to_header()
ToHeader ==
    /\ pc = "parsed"
    /\ http_range.tag = "Some"
    /\ header' = to_header(http_range)
    /\ pc' = "serialized"
    /\ UNCHANGED <<content_range, content_length, overflow_checks, http_range,
                   reparsed, satisfiable>>

\* HttpRange::from_header(&header, content_length)
FromHeaderAgain ==
    /\ pc = "serialized"
    /\ reparsed' = from_header(header, content_length, overflow_checks)
    /\ pc' = IF reparsed'.tag = "Panic" THEN "aborted" ELSE "reparsed"
    /\ UNCHANGED <<content_range, content_length, overflow_checks, http_range,
                   header, satisfiable>>

Next == FromHeader \/ ToHeader \/ FromHeaderAgain

Spec == Init /\ [][Next]_vars

\* --------------------------------------- callers of the satisfiability API
\* ranges a caller may put into the public field ranges
RangeValues == {Range(s, e) : s \in Nums, e \in {0, MaxU64}}

InitSat ==
    /\ content_range = <<>>
    /\ content_length = 0
    /\ overflow_checks \in BOOLEAN
    /\ http_range \in {HttpRange(rs, LengthNone) :
                          rs \in {<<>>} \cup SeqsUpTo(RangeValues, MaxRanges)}
    /\ header = <<>>
    /\ reparsed = NotCalled
    /\ satisfiable = NoCall
    /\ pc = "built"

\* http_range.none_satisfiable(content_length)
NoneSatisfiable ==
    /\ pc = "built"
    /\ \E n \in 0..(MaxContent + 1) :
          satisfiable' = [op |-> "none_satisfiable", length |-> n, index |-> 0,
                          result |-> none_satisfiable(http_range, n)]
    /\ UNCHANGED <<content_range, content_length, overflow_checks, http_range,
                   header, reparsed, pc>>

\* http_range.any_satisfiable(content_length)
AnySatisfiable ==
    /\ pc = "built"
    /\ \E n \in 0..(MaxContent + 1) :
          satisfiable' = [op |-> "any_satisfiable", length |-> n, index |-> 0,
                          result |-> any_satisfiable(http_range, n)]
    /\ UNCHANGED <<content_range, content_length, overflow_checks, http_range,
                   header, reparsed, pc>>

\* HttpRange::range_satisfiable(&http_range.ranges[index], content_length)
RangeSatisfiable ==
    /\ pc = "built"
    /\ \E n \in 0..(MaxContent + 1), i \in 1..Len(http_range.ranges) :
          satisfiable' = [op |-> "range_satisfiable", length |-> n, index |-> i,
                          result |-> range_satisfiable(http_range.ranges[i], n)]
    /\ UNCHANGED <<content_range, content_length, overflow_checks, http_range,
                   header, reparsed, pc>>

NextSat == NoneSatisfiable \/ AnySatisfiable \/ RangeSatisfiable

SpecSat == InitSat /\ [][NextSat]_vars

\* ------------------------------------------------------------- properties
\* from_header has just returned or panicked
Called ==
    pc \in {"parsed", "aborted"} /\ http_range.tag /= "NotCalled" /\ reparsed.tag = "NotCalled"

\* the header has the shape unit "=" payload with at most one "/": the call
\* reaches the loop over range_params
HasRangeList(h) ==
    /\ Len(Split(h, "=")) = 2
    /\ Trim(Split(h, "=")[1]) = RANGE_UNIT
    /\ Len(Split(Split(h, "=")[2], "/")) <= 2

\* the range-specs of such a header, in the order written
RangeParamsOf(h) == Split(Trim(Split(Trim(Split(h, "=")[2]), "/")[1]), ",")

\* the two texts of a range-spec
ValuesOf(range_param) == TrimAll(Split(range_param, "-"))

\* the ranges vector after the loop over range_params, before the merge
Requested ==
    ParseRangeParams(RangeParamsOf(content_range), 1, <<>>, content_length,
                     overflow_checks).ranges

\* every range-spec of the header gives both bounds
AllClosed(h) ==
    \A i \in 1..Len(RangeParamsOf(h)) :
       /\ Len(ValuesOf(RangeParamsOf(h)[i])) = 2
       /\ ValuesOf(RangeParamsOf(h)[i])[1] /= <<>>
       /\ ValuesOf(RangeParamsOf(h)[i])[2] /= <<>>

\* the bytes a vector of inclusive ranges covers
Bytes(ranges) ==
    {b \in U64 : \E i \in 1..Len(ranges) : ranges[i].start <= b /\ b <= ranges[i].end}

\* the header with its range-specs reordered by p
PermutedHeader(h, p) ==
    LET parts  == Split(h, "=")
        params == Split(parts[2], "/")
        rp     == Split(params[1], ",")
        moved  == [i \in 1..Len(rp) |-> rp[p[i]]]
    IN  parts[1] \o <<"=">> \o Join(<<Join(moved, <<",">>)>> \o Tail(params), <<"/">>)

Perms(n) == {p \in [1..n -> 1..n] : \A i, j \in 1..n : p[i] = p[j] => i = j}

\* a text that is no number: some character is neither a digit nor a sign
NonNumeric(token) == \E i \in 1..Len(token) : ~IsDigit(token[i]) /\ token[i] /= "+"

\* C1: when every range-spec is "start-end" with start <= end (and no end is
\* the largest integer), the ranges from_header returns cover exactly the union
\* of the requested bytes: overlapping or adjacent ranges merge to
\* [min start, MAX end].
C1_MergeCoversUnion ==
    (/\ Called /\ http_range.tag = "Some" /\ content_length >= 1
     /\ HasRangeList(content_range) /\ AllClosed(content_range)
     /\ \A i \in 1..Len(Requested) :
           Requested[i].start <= Requested[i].end /\ Requested[i].end < MaxU64)
    => Bytes(http_range.ranges) = Bytes(Requested)

\* C2: from_header returns the same HttpRange for every order of the
\* range-specs of a header it accepts (each "start-end" with start <= end, no
\* end the largest integer).
C2_OrderIndependent ==
    (/\ Called /\ http_range.tag = "Some" /\ content_length >= 1
     /\ HasRangeList(content_range) /\ AllClosed(content_range)
     /\ \A i \in 1..Len(Requested) :
           Requested[i].start <= Requested[i].end /\ Requested[i].end < MaxU64)
    => \A p \in Perms(Len(RangeParamsOf(content_range))) :
          from_header(PermutedHeader(content_range, p), content_length, overflow_checks)
              = http_range

\* C3: round trip: from_header of to_header of a returned HttpRange, with the
\* same content_length, returns that HttpRange again (ranges and complete_length).
C3_RoundTrip ==
    reparsed.tag /= "NotCalled" => reparsed.tag = "Some" /\ reparsed = http_range

C3_Witness ==
    /\ pc = "reparsed"
    /\ Len(RangeParamsOf(content_range)) = 2
    /\ Len(http_range.ranges) = 2
    /\ reparsed = http_range

\* the range-spec "n-", the range-spec "-n", the header of one range-spec
FromSpec == [n \in U64 |-> RangeSpec(FormatU64(n), <<>>)]

SuffixSpec == [n \in U64 |-> RangeSpec(<<>>, FormatU64(n))]

Only(spec) == HeaderOf(RANGE_UNIT, <<spec>>, <<>>)

\* C4: with content_length >= 1 a range-spec "S-" resolves to
\* [S, content_length - 1] and "-N" with N <= content_length to
\* [content_length - N, content_length - 1]; "bytes=-N" and
\* "bytes=<content_length - N>-" return the same single range.
C4_OpenEndedResolution ==
    (Called /\ content_length >= 1) =>
        LET last == content_length - 1
            rp   == RangeParamsOf(content_range)
            req  == Requested
        IN  /\ (http_range.tag = "Some" /\ HasRangeList(content_range)) =>
                  \A i \in 1..Len(rp), n \in U64 :
                     /\ rp[i] = FromSpec[n] => req[i] = Range(n, last)
                     /\ (rp[i] = SuffixSpec[n] /\ n <= content_length)
                           => req[i] = Range(content_length - n, last)
            /\ \A n \in U64 :
                  content_range = Only(FromSpec[n])
                     => http_range = HttpRange(<<Range(n, last)>>, LengthNone)
            /\ \A n \in 0..content_length :
                  content_range = Only(SuffixSpec[n])
                     => /\ http_range = HttpRange(<<Range(content_length - n, last)>>,
                                                  LengthNone)
                        /\ from_header(Only(FromSpec[content_length - n]),
                                       content_length, overflow_checks) = http_range

C4_Witness ==
    /\ Called
    /\ content_length = MaxContent
    /\ content_range = Only(SuffixSpec[1])
    /\ http_range = HttpRange(<<Range(MaxContent - 1, MaxContent - 1)>>, LengthNone)

\* C5: range_satisfiable(r, L) is r.start < L; any_satisfiable(L) is true iff
\* some range of the set has start < L (false for no ranges); none_satisfiable(L)
\* is true iff no range has.
C5_Satisfiability ==
    LET some == \E i \in 1..Len(http_range.ranges) :
                    http_range.ranges[i].start < satisfiable.length
    IN  /\ satisfiable.op = "range_satisfiable" =>
              satisfiable.result =
                  (http_range.ranges[satisfiable.index].start < satisfiable.length)
        /\ satisfiable.op = "any_satisfiable" => satisfiable.result = some
        /\ satisfiable.op = "none_satisfiable" => satisfiable.result = ~some

C5_Witness ==
    /\ satisfiable.op = "none_satisfiable"
    /\ satisfiable.result = FALSE
    /\ Len(http_range.ranges) = 2
    /\ http_range.ranges[1].start = satisfiable.length
    /\ http_range.ranges[2].start = satisfiable.length - 1

\* C6: when content_length - 1 or content_length - N would go below zero (the
\* range-specs being of the grammar, none a lone "-"), from_header returns the
\* failure value: it neither panics nor returns a range computed modulo 2^64.
C6_NoWrapNoPanic ==
    (/\ Called /\ HasRangeList(content_range)
     /\ ParseRangeParams(RangeParamsOf(content_range), 1, <<>>, content_length,
                         FALSE).tag = "Some"
     /\ \A i \in 1..Len(RangeParamsOf(content_range)) :
           ValuesOf(RangeParamsOf(content_range)[i]) /= <<<<>>, <<>>>>
     /\ \/ content_length = 0
        \/ \E i \in 1..Len(RangeParamsOf(content_range)), n \in U64 :
              /\ ValuesOf(RangeParamsOf(content_range)[i]) = <<<<>>, FormatU64(n)>>
              /\ n > content_length)
    => http_range.tag = "None"

\* C7: with content_length >= 1, a header whose unit is not "bytes", or with
\* no "=" or more than one, or with more than one "/" in the payload, or with
\* a range bound that is no number, gets the failure value None.
C7_MalformedRejected ==
    (/\ Called /\ content_length >= 1
     /\ \/ Len(Split(content_range, "=")) /= 2
        \/ Trim(Split(content_range, "=")[1]) /= RANGE_UNIT
        \/ Len(Split(Split(content_range, "=")[2], "/")) > 2
        \/ \E i \in 1..Len(RangeParamsOf(content_range)) :
              \E k \in 1..Len(ValuesOf(RangeParamsOf(content_range)[i])) :
                 NonNumeric(ValuesOf(RangeParamsOf(content_range)[i])[k]))
    => http_range.tag = "None"

\* C8: when every range-spec is "start-end" with start <= end, the returned
\* ranges are in strictly ascending order of start and consecutive ranges a, b
\* have a.end + 1 < b.start.
C8_Normalized ==
    (/\ Called /\ http_range.tag = "Some" /\ content_length >= 1
     /\ HasRangeList(content_range) /\ AllClosed(content_range)
     /\ \A i \in 1..Len(Requested) : Requested[i].start <= Requested[i].end)
    => \A i \in 1..(Len(http_range.ranges) - 1) :
          /\ http_range.ranges[i].start < http_range.ranges[i + 1].start
          /\ http_range.ranges[i].end + 1 < http_range.ranges[i + 1].start

\* C9: a header with a range-spec that is a lone "-" gets the failure value.
C9_LoneDashRejected ==
    (/\ Called /\ content_length >= 1 /\ HasRangeList(content_range)
     /\ \E i \in 1..Len(RangeParamsOf(content_range)) :
           ValuesOf(RangeParamsOf(content_range)[i]) = <<<<>>, <<>>>>)
    => http_range.tag = "None"

\* C10: with content_length >= 1 every returned range has start <= end, also
\* when a range-spec "start-end" is written with start > end.
C10_StartLeEnd ==
    (/\ Called /\ http_range.tag = "Some" /\ content_length >= 1
     /\ HasRangeList(content_range) /\ AllClosed(content_range))
    => \A i \in 1..Len(http_range.ranges) :
          http_range.ranges[i].start <= http_range.ranges[i].end

====
